---- MODULE Spec2Model ----
(***************************************************************************)
(* viz-inspect: the vote/comment store and its request handlers.            *)
(*                                                                         *)
(* The store is three tables: object_catalog (one row per object, with the *)
(* per-object user_flags map), object_comments (one row per submitted      *)
(* comment/vote, carrying the submitter's user_flags) and object_reviewers *)
(* (review assignments).  The operations are the backend functions of      *)
(* backend/catalogs.py and the request handlers of                         *)
(* frontend/actionhandlers.py that call them.                              *)
(***************************************************************************)
EXTENDS Integers, Sequences, FiniteSets, TLC

(***************************************************************************)
(* Bounds of the model.                                                    *)
(***************************************************************************)
\* rows the object_comments table may hold
MaxComments == 2
\* rows review-assignment requests may add to the object_reviewers table
MaxReviewerRows == 2
\* largest chunksize of a bulk assignment
MaxChunk == 2
\* rows of the catalog an object list is taken from
MaxCatalog == 3
\* largest max_objects (page size) of an object list request
MaxPageSize == 2
\* largest per-flag count of a tally handed to the evaluator
MaxCount == 2
\* largest vote threshold of a configuration handed to the evaluator
MaxThreshold == 3
\* failed listen attempts followed at a server's startup
MaxProbes == 30
\* rows of a catalog file handed to load_catalog
MaxLoadRows == 2
\* calls of load_catalog after the first load
MaxLoads == 2

(***************************************************************************)
(* The deployment: the flag set, the loaded catalog, the users.            *)
(***************************************************************************)
\* flags_to_use of load_catalog
Flags == {"candy", "junk", "tidal", "cirrus"}
\* the flags counted as good and as bad votes (site configuration)
GoodFlags == {"candy", "tidal"}
BadFlags == {"junk", "cirrus"}
\* the vote thresholds (site configuration defaults)
MaxGoodVotes == 2
MaxBadVotes == 2
MaxAllVotes == 3
\* objectids of the rows load_catalog inserted
Objects == {1, 2}
\* objectids a request may name: the loaded ones and one that is not loaded
ObjectIds == Objects \cup {3}
\* user_id values of logged-in users
Users == {1, 2}
\* the users whose user_role is 'superuser'
Superusers == {1}
\* SQL NULL in object_reviewers.userid
NULL == 0

\* user_flags a save request may carry: the client's JSON is stored as sent.
\* One flag set (a vote for that flag), and one submission with two flags set.
OneHot(f) == [g \in Flags |-> g = f]
VoteFlags == {OneHot(f) : f \in Flags} \cup {[g \in Flags |-> g \in {"candy", "junk"}]}

\* a submission that sets one flag which is not in flags_to_use
UnknownFlagVote == [g \in Flags \cup {"galaxy"} |-> g = "galaxy"]

\* flags dicts a caller of update_object_flags may pass
FlagUpdates ==
    { [g \in Flags |-> IF g = "candy" THEN 2 ELSE 0],
      [g \in Flags |-> IF g \in {"junk", "cirrus"} THEN 1 ELSE 0] }

VARIABLES
    catalog,    \* object_catalog.user_flags: objectid -> (flag -> value)
    comments,   \* object_comments: sequence of rows in commentid order
    reviewers,  \* object_reviewers: sequence of rows
    pc,         \* per user: where that user's save request stands
    req,        \* per user: the objectid of the save request in flight
    evalIn,     \* the evaluator's input (tally and configuration)
    evalOut,    \* the evaluator's result for evalIn
    bulk,       \* the run of update_review_assignments_from_file
    lst,        \* the object list requests: catalog, filter, pages returned
    resp,       \* the answer to the latest save or load request
    tries,      \* per user: calls of the insert worker by the request in flight
    ret,        \* per user: what the insert worker returned to the request in flight
    tables,     \* the rows of object_catalog and of object_images
    load,       \* the calls of load_catalog: their number, the last one's outcome
    probe       \* the port probing of a server at startup

vars == <<catalog, comments, reviewers, pc, req, evalIn, evalOut, bulk, lst, resp, tries,
         ret, tables, load, probe>>
ansVars == <<resp, tries, ret>>
loadVars == <<tables, load>>
storeVars == <<catalog, comments, reviewers>>
evalVars == <<evalIn, evalOut>>

(***************************************************************************)
(* Helpers.                                                                *)
(***************************************************************************)
RECURSIVE SumOver(_, _)
SumOver(t, S) ==
    IF S = {} THEN 0
    ELSE LET f == CHOOSE x \in S : TRUE
         IN t[f] + SumOver(t, S \ {f})

\* indexes of the comment rows of object o
CommentRows(o) == {i \in DOMAIN comments : comments[i].objectid = o}

\* indexes of the reviewer rows of object o
ReviewerRows(o) == {i \in DOMAIN reviewers : reviewers[i].objectid = o}

\* the rows of an outer join: the matching rows, or one NULL row (0) if none
OuterRows(S) == IF S = {} THEN {0} ELSE S

(***************************************************************************)
(* backend/catalogs.py: get_object.  The rows of                            *)
(*   object_catalog JOIN object_images                                      *)
(*     LEFT JOIN object_comments LEFT JOIN object_reviewers                 *)
(* for one objectid, each as <<comment row, reviewer row>> (0: NULL).       *)
(* load_catalog gives every loaded object its object_images row.            *)
(***************************************************************************)
get_object(o) ==
    IF o \notin Objects THEN {}
    ELSE OuterRows(CommentRows(o)) \X OuterRows(ReviewerRows(o))

\* worker_get_object: the list of the reviewers' user IDs
reviewer_userid(o) ==
    {reviewers[row[2]].userid :
        row \in {x \in get_object(o) : x[2] # 0 /\ reviewers[x[2]].userid # NULL}}

\* worker_get_object: the readonly flag of the object view for user u
readonly(o, u) ==
    IF Cardinality(reviewer_userid(o)) > 0 /\ u \in reviewer_userid(o) THEN FALSE
    ELSE IF Cardinality(reviewer_userid(o)) > 0 /\ u \notin reviewer_userid(o) THEN TRUE
    ELSE IF Cardinality(reviewer_userid(o)) = 0 THEN FALSE
    ELSE TRUE

\* worker_get_object returning an object view for every objectid
ObjectFound_Always(o) == TRUE

\* worker_get_object returns None when get_object has no row (objectinfo[0])
ObjectFound(o) == get_object(o) # {}

\* worker_get_object: one entry of the comments list for every row of
\* get_object that has a comment, newest first (a comment row's index stands
\* for its 'added' time)
RECURSIVE comments_sorted(_)
comments_sorted(objectinfo) ==
    IF objectinfo = {} THEN <<>>
    ELSE LET x == CHOOSE r \in objectinfo : \A y \in objectinfo : r[1] >= y[1]
         IN <<x[1]>> \o comments_sorted(objectinfo \ {x})

\* worker_get_object: the 'comments' of the object view, as indexes of
\* comment rows
view_comments(o) == comments_sorted({x \in get_object(o) : x[1] # 0})

(***************************************************************************)
(* backend/catalogs.py: insert_object_comments.  One INSERT into            *)
(* object_comments inside one transaction; nothing else is written.        *)
(***************************************************************************)
insert_object_comments(userid, objectid, user_flags) ==
    Append(comments,
           [objectid |-> objectid, userid |-> userid, user_flags |-> user_flags])

\* update_object_flags keeping only the flags whose count is not zero
update_object_flags_SetOnly(objectid, flags) ==
    [o \in Objects |->
        IF o = objectid
        THEN [f \in {g \in DOMAIN flags : flags[g] > 0} |-> flags[f]]
        ELSE catalog[o]]

\* update_object_flags with the WHERE clause lost: every object is updated
update_object_flags_NoWhere(objectid, flags) ==
    [o \in Objects |-> flags]

(***************************************************************************)
(* backend/catalogs.py: update_object_flags.  One UPDATE of the object's   *)
(* user_flags to the dict passed in.                                       *)
(***************************************************************************)
update_object_flags(objectid, flags) ==
    [o \in Objects |-> IF o = objectid THEN flags ELSE catalog[o]]

(***************************************************************************)
(* backend/catalogs.py: update_review_assignments.                          *)
(***************************************************************************)
RECURSIVE AssignmentRows(_, _)
AssignmentRows(objectid_list, r) ==
    IF objectid_list = <<>> THEN <<>>
    ELSE <<[objectid |-> Head(objectid_list), userid |-> r]>>
            \o AssignmentRows(Tail(objectid_list), r)

InList(x, list) == \E i \in DOMAIN list : list[i] = x

\* the unassignment with the WHERE clause lost: every row is unassigned
update_review_assignments_UnassignAll(objectid_list, r, do_unassign) ==
    IF ~do_unassign
    THEN reviewers \o AssignmentRows(objectid_list, r)
    ELSE [i \in DOMAIN reviewers |-> [reviewers[i] EXCEPT !.userid = NULL]]

update_review_assignments(objectid_list, r, do_unassign) ==
    IF ~do_unassign
    THEN reviewers \o AssignmentRows(objectid_list, r)
    ELSE [i \in DOMAIN reviewers |->
            IF InList(reviewers[i].objectid, objectid_list)
            THEN [reviewers[i] EXCEPT !.userid = NULL]
            ELSE reviewers[i]]

\* objectid lists an assignment request may carry
ObjectLists == {<<1>>, <<2>>, <<1, 2>>}

(***************************************************************************)
(* backend/catalogs.py: chunker and update_review_assignments_from_file.   *)
(***************************************************************************)
\* chunker: seq[pos:pos + size] for pos in range(0, len(seq), size)
chunker(seq, size) ==
    [k \in 1..((Len(seq) + size - 1) \div size) |->
        SubSeq(seq, (k - 1) * size + 1,
               IF k * size < Len(seq) THEN k * size ELSE Len(seq))]

\* a row of the assignment file: userid 0 means unassign
Pair(o, r) == [objectid |-> o, userid |-> r]

\* the assignment files: each objectid occurs once
BulkFiles ==
    {<<Pair(o, r)>> : o \in Objects, r \in {0} \cup Users}
    \cup {<<Pair(o[1], r[1]), Pair(o[2], r[2])>> :
            o \in {x \in Objects \X Objects : x[1] # x[2]},
            r \in ({0} \cup Users) \X ({0} \cup Users)}

\* group['objectid'] of the group with userid = name, in file order
GroupObjectids(assignments, name) ==
    LET group == SelectSeq(assignments, LAMBDA row : row.userid = name)
    IN [i \in DOMAIN group |-> group[i].objectid]

\* the calls of update_review_assignments the two loops make, in order:
\* groups by ascending userid, each group's objectids chunk by chunk
RECURSIVE GroupBatches(_, _, _)
GroupBatches(assignments, names, chunksize) ==
    IF names = {} THEN <<>>
    ELSE LET name == CHOOSE n \in names : \A m \in names : n <= m
             chunks == chunker(GroupObjectids(assignments, name), chunksize)
         IN [k \in DOMAIN chunks |->
                [objectid_list |-> chunks[k],
                 this_userid |-> name,
                 do_unassign |-> (name = 0)]]
            \o GroupBatches(assignments, names \ {name}, chunksize)

\* the userids of the file: the group names
GroupNames(assignments) == {assignments[i].userid : i \in DOMAIN assignments}

\* no bulk assignment has been started
BulkIdle == [state |-> "idle", file |-> <<>>, chunksize |-> 0, todo |-> <<>>]

(***************************************************************************)
(* The object list.  catalogs.get_objects as the workers call it (with     *)
(* userid_check, start_keyid, end_keyid and max_objects) is modelled from  *)
(* the description of the query engine; frontend/actionworkers.py:         *)
(* worker_get_objects is its caller.                                       *)
(***************************************************************************)
\* Python's None for start_keyid and end_keyid
None == -1

\* the objectid column by keyid: the viz-id column of the catalog file, in
\* ascending or in descending order
ObjectidOrders ==
    { [k \in 1..MaxCatalog |-> k], [k \in 1..MaxCatalog |-> MaxCatalog + 1 - k] }

\* the catalogs listed: one row per keyid, with the object's review status
\* and whether the user of the request has voted on it
ListCatalogs ==
    { [k \in 1..MaxCatalog |->
          [keyid |-> k, objectid |-> ord[k],
           review_status |-> st[k], voted |-> v[k]]] :
      ord \in ObjectidOrders,
      st \in [1..MaxCatalog -> {"incomplete", "complete-good"}],
      v \in [1..MaxCatalog -> BOOLEAN] }

\* check_review_status and userid_check of worker_get_objects
ListFilters ==
    [review_status : {"all", "incomplete", "complete-good", "complete-bad"},
     userid_check : {"none", "include", "exclude"}]

\* the row passes the review-status predicate and the voter predicate
Matches(row, filter) ==
    /\ filter.review_status = "all"
          \/ row.review_status = filter.review_status
    /\ \/ filter.userid_check = "none"
       \/ filter.userid_check = "include" /\ row.voted
       \/ filter.userid_check = "exclude" /\ ~row.voted

\* the matching rows from keyid k upwards, at most n of them
RECURSIVE ScanUp(_, _, _, _)
ScanUp(cat, filter, k, n) ==
    IF k > Len(cat) \/ n = 0 THEN <<>>
    ELSE IF Matches(cat[k], filter)
         THEN <<cat[k]>> \o ScanUp(cat, filter, k + 1, n - 1)
         ELSE ScanUp(cat, filter, k + 1, n)

\* the matching rows from keyid k downwards, at most n of them
RECURSIVE ScanDown(_, _, _, _)
ScanDown(cat, filter, k, n) ==
    IF k < 1 \/ n = 0 THEN <<>>
    ELSE IF Matches(cat[k], filter)
         THEN <<cat[k]>> \o ScanDown(cat, filter, k - 1, n - 1)
         ELSE ScanDown(cat, filter, k - 1, n)

\* get_objects: the (keyid, objectid) rows of the page, its lowest and
\* highest keyid, and whether the scan ran downwards
get_objects(cat, filter, start_keyid, end_keyid, max_objects) ==
    LET revorder == end_keyid # None
        rows == IF revorder
                THEN ScanDown(cat, filter,
                              IF end_keyid > Len(cat) THEN Len(cat)
                              ELSE end_keyid,
                              max_objects)
                ELSE ScanUp(cat, filter,
                            IF start_keyid < 1 THEN 1 ELSE start_keyid,
                            max_objects)
        keyids == {rows[i].keyid : i \in DOMAIN rows}
    IN [objectlist |-> [i \in DOMAIN rows |-> <<rows[i].keyid, rows[i].objectid>>],
        start_keyid |-> IF keyids = {} THEN None
                        ELSE CHOOSE k \in keyids : \A j \in keyids : k <= j,
        end_keyid |-> IF keyids = {} THEN None
                      ELSE CHOOSE k \in keyids : \A j \in keyids : k >= j,
        revorder |-> revorder]

\* sorted(list(S)) of a set of integers
RECURSIVE sorted(_)
sorted(S) ==
    IF S = {} THEN <<>>
    ELSE LET x == CHOOSE y \in S : \A z \in S : y <= z
         IN <<x>> \o sorted(S \ {x})

\* get_object_count for the filter: the number of matching catalog rows
list_count(cat, filter) ==
    Cardinality({k \in DOMAIN cat : Matches(cat[k], filter)})

\* the page count without the page for the remainder
n_pages_Floor(count, max_objects) == count \div max_objects

\* worker_get_objects: n_pages from the object count.  int(count/max_objects)
\* truncates the quotient, which for a count >= 0 is the integer division.
n_pages(count, max_objects) ==
    IF count % max_objects # 0
    THEN (count \div max_objects) + 1
    ELSE count \div max_objects

\* the worker with the keyid column returned in place of the objectid
worker_get_objects_Keyids(cat, filter, start_keyid, end_keyid, max_objects) ==
    LET got == get_objects(cat, filter, start_keyid, end_keyid, max_objects)
    IN [objectlist |->
            sorted({got.objectlist[i][1] : i \in DOMAIN got.objectlist}),
        start_keyid |-> got.start_keyid,
        end_keyid |-> got.end_keyid,
        object_count |-> list_count(cat, filter),
        n_pages |-> n_pages(list_count(cat, filter), max_objects)]

\* the worker with the rows returned as scanned, not sorted
worker_get_objects_Unsorted(cat, filter, start_keyid, end_keyid, max_objects) ==
    LET got == get_objects(cat, filter, start_keyid, end_keyid, max_objects)
    IN [objectlist |-> [i \in DOMAIN got.objectlist |-> got.objectlist[i][2]],
        start_keyid |-> got.start_keyid,
        end_keyid |-> got.end_keyid,
        object_count |-> list_count(cat, filter),
        n_pages |-> n_pages(list_count(cat, filter), max_objects)]

\* worker_get_objects: the sorted set of the objectids of the rows, and the
\* keyids get_objects reported
worker_get_objects(cat, filter, start_keyid, end_keyid, max_objects) ==
    LET got == get_objects(cat, filter, start_keyid, end_keyid, max_objects)
    IN [objectlist |->
            sorted({got.objectlist[i][2] : i \in DOMAIN got.objectlist}),
        start_keyid |-> got.start_keyid,
        end_keyid |-> got.end_keyid,
        object_count |-> list_count(cat, filter),
        n_pages |-> n_pages(list_count(cat, filter), max_objects)]

\* no object list has been requested
NoResult ==
    [objectlist |-> <<>>, start_keyid |-> None, end_keyid |-> None,
     object_count |-> 0, n_pages |-> 0]

ListIdle ==
    [phase |-> "idle", cat |-> <<>>,
     filter |-> [review_status |-> "all", userid_check |-> "none"],
     max_objects |-> 1, start_keyid |-> None, end_keyid |-> None,
     result |-> NoResult, pages |-> <<>>]

(***************************************************************************)
(* The consensus evaluator: the review status of a tally under a           *)
(* threshold configuration.                                                *)
(***************************************************************************)
\* the evaluator with the thresholds compared strictly
EvaluateStrict(tally, goodFlags, badFlags, maxGoodVotes, maxBadVotes, maxAllVotes) ==
    LET goodSum == SumOver(tally, goodFlags)
        badSum == SumOver(tally, badFlags)
    IN IF goodSum > maxGoodVotes THEN "complete-good"
       ELSE IF badSum > maxBadVotes THEN "complete-bad"
       ELSE "incomplete"

\* the evaluator with the bad threshold checked before the good one
EvaluateBadFirst(tally, goodFlags, badFlags, maxGoodVotes, maxBadVotes, maxAllVotes) ==
    LET goodSum == SumOver(tally, goodFlags)
        badSum == SumOver(tally, badFlags)
    IN IF badSum >= maxBadVotes THEN "complete-bad"
       ELSE IF goodSum >= maxGoodVotes THEN "complete-good"
       ELSE "incomplete"

Evaluate(tally, goodFlags, badFlags, maxGoodVotes, maxBadVotes, maxAllVotes) ==
    LET goodSum == SumOver(tally, goodFlags)
        badSum == SumOver(tally, badFlags)
        allSum == goodSum + badSum
    IN IF goodSum >= maxGoodVotes THEN "complete-good"
       ELSE IF badSum >= maxBadVotes THEN "complete-bad"
       ELSE "incomplete"

\* the inputs the evaluator is applied to
FlagPartitions ==
    { <<{"candy", "tidal"}, {"junk", "cirrus"}>>,
      <<{"candy"}, {"junk", "cirrus"}>>,
      <<{"candy", "tidal", "junk"}, {"cirrus"}>> }

EvalInputs ==
    [tally : [Flags -> 0..MaxCount],
     parts : FlagPartitions,
     maxGoodVotes : 1..MaxThreshold,
     maxBadVotes : 1..MaxThreshold]

(***************************************************************************)
(* backend/catalogs.py: get_objects and get_object_count over the store.    *)
(* Both select from                                                        *)
(*   object_catalog JOIN object_images                                      *)
(*     LEFT JOIN object_comments LEFT JOIN object_reviewers                 *)
(* and put the review_status condition on the rows of the join.  A row of  *)
(* the join is <<objectid, comment row, reviewer row>> (0: NULL).           *)
(***************************************************************************)
ReviewStatuses ==
    {"all", "unreviewed-all", "reviewed-all", "reviewed-self", "reviewed-other",
     "assigned-self", "assigned-reviewed", "assigned-unreviewed",
     "assigned-all", "unassigned-all"}

\* the rows of object_catalog and the image rows of an objectid
CatalogRows == {tables.object_catalog[k] : k \in DOMAIN tables.object_catalog}
ImageRows(o) ==
    {k \in DOMAIN tables.object_images : tables.object_images[k].objectid = o}

\* the comment rows and reviewer rows of one object joined with inner joins
CommentsReviewers_Inner(o) == CommentRows(o) \X ReviewerRows(o)

\* the outer joins of one object's comment rows and reviewer rows
CommentsReviewers(o) == OuterRows(CommentRows(o)) \X OuterRows(ReviewerRows(o))

\* get_objects: object_catalog JOIN object_images LEFT JOIN object_comments
\* LEFT JOIN object_reviewers, a row as <<objectid, comment, reviewer, image>>
JoinRows ==
    UNION {{<<t.objectid, x[1], x[2], k>> :
               x \in CommentsReviewers(t.objectid), k \in ImageRows(t.objectid)} :
           t \in CatalogRows}

\* get_object_count: object_catalog LEFT JOIN object_comments LEFT JOIN
\* object_reviewers, a row as <<id, comment, reviewer>>
CountRows ==
    UNION {{<<t.id, x[1], x[2]>> : x \in CommentsReviewers(t.objectid)} :
           t \in CatalogRows}

\* the WHERE clause for review_status and userid on one row of the join; a
\* comparison with NULL is not true, and a filter that needs a userid is
\* dropped when userid is None
Where(row, review_status, userid) ==
    LET added == row[2] # 0
        comment_userid == IF row[2] = 0 THEN NULL ELSE comments[row[2]].userid
        reviewer == IF row[3] = 0 THEN NULL ELSE reviewers[row[3]].userid
    IN  CASE review_status = "unreviewed-all" -> ~added
          [] review_status = "reviewed-all" -> added
          [] review_status = "reviewed-self" /\ userid # NULL -> comment_userid = userid /\ added
          [] review_status = "reviewed-other" /\ userid # NULL ->
                 comment_userid # NULL /\ comment_userid # userid /\ added
          [] review_status = "assigned-self" /\ userid # NULL -> reviewer = userid
          [] review_status = "assigned-reviewed" /\ userid # NULL -> reviewer = userid /\ added
          [] review_status = "assigned-unreviewed" /\ userid # NULL -> reviewer = userid /\ ~added
          [] review_status = "assigned-all" -> reviewer # NULL
          [] review_status = "unassigned-all" -> reviewer = NULL
          [] OTHER -> TRUE

\* the rows a set of join rows is fetched as: their objectid column
RECURSIVE fetchall(_)
fetchall(rows) ==
    IF rows = {} THEN <<>>
    ELSE LET row == CHOOSE x \in rows : TRUE
         IN <<row[1]>> \o fetchall(rows \ {row})

\* get_objects with getinfo = 'objectids' and no keyid range: one objectid
\* for every row of the join that passes the WHERE clause
select_objectids(review_status, userid) ==
    fetchall({row \in JoinRows : Where(row, review_status, userid)})

\* get_object_count counting the rows of its join
get_object_count_Rows(review_status, userid) ==
    Cardinality({x \in CountRows : Where(x, review_status, userid)})

\* get_object_count: count(distinct(object_catalog.id)) over the rows of its
\* join that pass the same WHERE clause
get_object_count(review_status, userid) ==
    Cardinality({row[1] : row \in {x \in CountRows : Where(x, review_status, userid)}})

\* the list handed on as it was fetched
objectlist_AsFetched(rows) == rows

\* worker_get_objects: the fetched objectids go through a set before they
\* are returned as the 'objectlist'
objectlist(rows) == sorted({rows[i] : i \in DOMAIN rows})

(***************************************************************************)
(* backend/catalogs.py: load_catalog.  The rows of the catalog file go     *)
(* into object_catalog and one row per object into object_images, all in   *)
(* one transaction.  objectid is unique in both tables: with overwrite an  *)
(* INSERT that meets an existing objectid updates that row, without        *)
(* overwrite it raises and the transaction is rolled back.                 *)
(***************************************************************************)
\* the values a file gives to ra, dec and the extra columns of a row
ColumnValues == {1, 2}

FileRow(o, v) == [objectid |-> o, ra |-> v, dec |-> v, extra_columns |-> v]

FileRows == {FileRow(o, v) : o \in ObjectIds, v \in ColumnValues}

\* the files: up to MaxLoadRows rows, any objectids (repeated ones included),
\* one column value throughout a file
CatalogFiles ==
    UNION {{[i \in 1..n |-> FileRow(os[i], v)] :
               os \in [1..n -> ObjectIds], v \in ColumnValues} :
           n \in 1..MaxLoadRows}

\* the tables after the first load: the objects of Objects, keyids from 1
LoadedTables ==
    [object_catalog |->
        [k \in 1..Cardinality(Objects) |->
            [id |-> k, objectid |-> k, ra |-> 1, dec |-> 1, extra_columns |-> 1]],
     object_images |->
        [k \in 1..Cardinality(Objects) |-> [objectid |-> k, filepath |-> k]]]

\* no load since the first; the id sequence stands after the loaded rows
NoLoad ==
    [count |-> 0, status |-> "none", overwrite |-> FALSE,
     nextid |-> Cardinality(Objects) + 1,
     objectids |-> {}]

\* the INSERTs of the object rows with an overwritten row taking a new id
RECURSIVE insert_objects_NewId(_, _, _, _)
insert_objects_NewId(table, rows, overwrite, id) ==
    IF rows = <<>> THEN [ok |-> TRUE, table |-> table, id |-> id]
    ELSE LET row == Head(rows)
             hit == {i \in DOMAIN table : table[i].objectid = row.objectid}
         IN  IF hit = {}
             THEN insert_objects_NewId(
                      Append(table, [id |-> id, objectid |-> row.objectid,
                                     ra |-> row.ra, dec |-> row.dec,
                                     extra_columns |-> row.extra_columns]),
                      Tail(rows), overwrite, id + 1)
             ELSE IF overwrite
             THEN insert_objects_NewId(
                      [i \in DOMAIN table |->
                          IF i \in hit
                          THEN [id |-> id, objectid |-> row.objectid,
                                ra |-> row.ra, dec |-> row.dec,
                                extra_columns |-> row.extra_columns]
                          ELSE table[i]],
                      Tail(rows), overwrite, id + 1)
             ELSE [ok |-> FALSE, table |-> table, id |-> id + 1]

\* the INSERTs of the object rows, in file order, from serial id `id` on:
\* whether all went through, the table they leave, and the next serial id
RECURSIVE insert_objects(_, _, _, _)
insert_objects(table, rows, overwrite, id) ==
    IF rows = <<>> THEN [ok |-> TRUE, table |-> table, id |-> id]
    ELSE LET row == Head(rows)
             hit == {i \in DOMAIN table : table[i].objectid = row.objectid}
         IN  IF hit = {}
             THEN insert_objects(
                      Append(table, [id |-> id, objectid |-> row.objectid,
                                     ra |-> row.ra, dec |-> row.dec,
                                     extra_columns |-> row.extra_columns]),
                      Tail(rows), overwrite, id + 1)
             ELSE IF overwrite
             THEN insert_objects(
                      [i \in DOMAIN table |->
                          IF i \in hit
                          THEN [table[i] EXCEPT !.ra = row.ra, !.dec = row.dec,
                                                !.extra_columns = row.extra_columns]
                          ELSE table[i]],
                      Tail(rows), overwrite, id + 1)
             ELSE [ok |-> FALSE, table |-> table, id |-> id + 1]

\* the INSERTs of the image rows, one for every row of the file
RECURSIVE insert_images(_, _, _)
insert_images(table, rows, overwrite) ==
    IF rows = <<>> THEN [ok |-> TRUE, table |-> table]
    ELSE LET objectid == Head(rows).objectid
             hit == {i \in DOMAIN table : table[i].objectid = objectid}
         IN  IF hit = {}
             THEN insert_images(
                      Append(table, [objectid |-> objectid, filepath |-> objectid]),
                      Tail(rows), overwrite)
             ELSE IF overwrite
             THEN insert_images(
                      [i \in DOMAIN table |->
                          IF i \in hit THEN [table[i] EXCEPT !.filepath = objectid]
                          ELSE table[i]],
                      Tail(rows), overwrite)
             ELSE [ok |-> FALSE, table |-> table]

\* the objectids of the rows of a file
FileObjectids(file) == {file[i].objectid : i \in DOMAIN file}

(***************************************************************************)
(* frontend/vizserver.py and authnzerver/main.py: main, the choice of the  *)
(* port to listen on.  serverport is kept as its distance from             *)
(* options.port.                                                           *)
(***************************************************************************)
maxtries == 10

Servers == {"vizserver", "authnzerver"}

\* the variables of the loop before it is entered
ProbeStart(server) ==
    [server |-> server, at |-> "loop", portok |-> FALSE, serverport |-> 0,
     thistry |-> 0]

\* no server is starting
NoProbe == [ProbeStart("vizserver") EXCEPT !.at = "off"]

(***************************************************************************)
(* frontend/actionhandlers.py: the retdict a handler writes, as its status *)
(* and the kind of its result.                                             *)
(***************************************************************************)
\* message: which of the handler's messages; result: None or what it holds
Answer(status, message, result) ==
    [status |-> status, message |-> message, result |-> result]
\* no request answered yet
NoAnswer == Answer("none", "none", "None")

\* a Python list of n items and the Python int n: values of different types
\* are not equal
PyList(n) == [type |-> "list", value |-> n]
PyInt(n) == [type |-> "int", value |-> n]

\* what worker_insert_object_comments handed back: nothing yet, None, or its
\* retdict
NoReturn == [kind |-> "none", updated |-> FALSE]
ReturnNone == [kind |-> "None", updated |-> FALSE]

\* worker_insert_object_comments after catalogs.insert_object_comments has
\* returned the object's n_rows rows: {'updated': updated == 1}
worker_insert_object_comments(n_rows) ==
    [kind |-> "retdict", updated |-> (PyList(n_rows) = PyInt(1))]

\* the rows get_object returns for object o once one more comment is stored
RowsAfterInsert(o) ==
    (Cardinality(CommentRows(o)) + 1) * Cardinality(OuterRows(ReviewerRows(o)))

(***************************************************************************)
(* Initial state: the store after load_catalog, no request in flight.      *)
(* load_catalog gives every flag of flags_to_use the value False, which    *)
(* counts as 0 (False == 0 and False + 1 == 1 in Python).                   *)
(***************************************************************************)
Init ==
    /\ catalog = [o \in Objects |-> [f \in Flags |-> 0]]
    /\ comments = <<>>
    /\ reviewers = <<>>
    /\ pc = [u \in Users |-> "idle"]
    /\ req = [u \in Users |-> 0]
    /\ evalIn = [tally |-> [f \in Flags |-> 0],
                 parts |-> <<GoodFlags, BadFlags>>,
                 maxGoodVotes |-> MaxGoodVotes,
                 maxBadVotes |-> MaxBadVotes]
    /\ evalOut = "none"
    /\ bulk = BulkIdle
    /\ lst = ListIdle
    /\ resp = NoAnswer
    /\ tries = [u \in Users |-> 0]
    /\ ret = [u \in Users |-> NoReturn]
    /\ tables = LoadedTables
    /\ load = NoLoad
    /\ probe = NoProbe

\* SaveObjectHandler.post submits worker_insert_object_comments once
InsertAttempts == 1

\* save requests that passed the check and have yet to insert
Checked == {u \in Users : pc[u] = "checked"}

(***************************************************************************)
(* frontend/actionhandlers.py: SaveObjectHandler.post, in its three parts. *)
(* Each part runs between two yields of the coroutine, so requests of      *)
(* different users interleave between the parts.                           *)
(***************************************************************************)
\* the check: worker_get_object, then the test on its result; a request for
\* an object that is not found or is readonly is answered 'failed' at once
SaveCheck(u, o) ==
    /\ pc[u] = "idle"
    /\ Len(comments) + Cardinality(Checked) < MaxComments
    /\ IF ObjectFound(o) /\ ~readonly(o, u)
       THEN /\ pc' = [pc EXCEPT ![u] = "checked"]
            /\ req' = [req EXCEPT ![u] = o]
            /\ UNCHANGED resp
       ELSE /\ resp' = Answer("failed", "not found or not in your list", "None")
            /\ UNCHANGED <<pc, req>>
    /\ UNCHANGED <<storeVars, evalVars, bulk, lst, tries, ret, loadVars, probe>>

\* the write with the readonly check repeated before it: a request whose
\* object has become readonly since the check is dropped
SaveInsertRecheck(u, user_flags) ==
    /\ pc[u] = "checked"
    /\ IF readonly(req[u], u)
       THEN /\ pc' = [pc EXCEPT ![u] = "idle"]
            /\ req' = [req EXCEPT ![u] = 0]
            /\ UNCHANGED <<comments, tries, ret>>
       ELSE /\ comments' = insert_object_comments(u, req[u], user_flags)
            /\ pc' = [pc EXCEPT ![u] = "inserted"]
            /\ tries' = [tries EXCEPT ![u] = @ + 1]
            /\ ret' = [ret EXCEPT ![u] =
                           worker_insert_object_comments(RowsAfterInsert(req[u]))]
            /\ UNCHANGED req
    /\ UNCHANGED <<catalog, reviewers, evalVars, bulk, lst, resp, loadVars, probe>>

\* the write: worker_insert_object_comments returns its retdict
SaveInsert(u, user_flags) ==
    /\ pc[u] = "checked"
    /\ comments' = insert_object_comments(u, req[u], user_flags)
    /\ pc' = [pc EXCEPT ![u] = "inserted"]
    /\ tries' = [tries EXCEPT ![u] = @ + 1]
    /\ ret' = [ret EXCEPT ![u] = worker_insert_object_comments(RowsAfterInsert(req[u]))]
    /\ UNCHANGED <<catalog, reviewers, req, evalVars, bulk, lst, resp, loadVars, probe>>

\* the handler submitting the insert worker again after a failure
SaveRespond_Retry(u) ==
    /\ pc[u] \in {"inserted", "failed"}
    /\ IF pc[u] = "inserted"
       THEN /\ resp' = Answer("ok", "object updated", "updated")
            /\ pc' = [pc EXCEPT ![u] = "idle"]
            /\ req' = [req EXCEPT ![u] = 0]
            /\ tries' = [tries EXCEPT ![u] = 0]
       ELSE /\ pc' = [pc EXCEPT ![u] = "checked"]
            /\ UNCHANGED <<req, resp, tries>>
    /\ ret' = [ret EXCEPT ![u] = NoReturn]
    /\ UNCHANGED <<storeVars, evalVars, bulk, lst, loadVars, probe>>

\* the response: 'ok' if the worker returned a retdict, 'failed' if it
\* returned None
SaveRespond(u) ==
    /\ pc[u] \in {"inserted", "failed"}
    /\ resp' = IF pc[u] = "inserted"
               THEN Answer("ok", "object updated", "updated")
               ELSE Answer("failed", "could not be updated", "None")
    /\ pc' = [pc EXCEPT ![u] = "idle"]
    /\ req' = [req EXCEPT ![u] = 0]
    /\ tries' = [tries EXCEPT ![u] = 0]
    /\ ret' = [ret EXCEPT ![u] = NoReturn]
    /\ UNCHANGED <<storeVars, evalVars, bulk, lst, loadVars, probe>>

\* the worker raises and returns None.  insert_object_comments runs two
\* transactions: the INSERT, then the read-back of the object.  An exception
\* in the first (bleach.clean of a missing comment, a failed execute) rolls
\* the INSERT back; an exception in the second comes after the INSERT has
\* been committed.
SaveInsertFail(u, user_flags, committed) ==
    /\ pc[u] = "checked"
    /\ comments' = IF committed THEN insert_object_comments(u, req[u], user_flags)
                                ELSE comments
    /\ pc' = [pc EXCEPT ![u] = "failed"]
    /\ tries' = [tries EXCEPT ![u] = @ + 1]
    /\ ret' = [ret EXCEPT ![u] = ReturnNone]
    /\ UNCHANGED <<catalog, reviewers, req, evalVars, bulk, lst, resp, loadVars, probe>>

\* a save request with neither comment_text nor user_flags: nothing is
\* looked up or written, the answer is 'ok'
SaveNoComment(u) ==
    /\ pc[u] = "idle"
    /\ resp' = Answer("ok", "no comments supplied", "None")
    /\ UNCHANGED <<storeVars, pc, req, evalVars, bulk, lst, tries, ret, loadVars, probe>>

\* LoadObjectHandler.get: worker_get_object, 'ok' with the object's info or
\* 'failed' (404) if the worker returned None
LoadObject(u, o) ==
    /\ resp' = IF ObjectFound(o) THEN Answer("ok", "object found", "objectinfo")
                                 ELSE Answer("failed", "not found", "None")
    /\ UNCHANGED <<storeVars, pc, req, evalVars, bulk, lst, tries, ret, loadVars, probe>>

\* load_catalog with its transaction committed up to the statement that
\* raised
LoadCatalog_Partial(file, overwrite, db_error) ==
    /\ load.count < MaxLoads
    /\ LET objs == insert_objects(tables.object_catalog, file, overwrite, load.nextid)
           imgs == IF objs.ok
                   THEN insert_images(tables.object_images, file, overwrite)
                   ELSE [ok |-> FALSE, table |-> tables.object_images]
           ok == objs.ok /\ imgs.ok /\ ~db_error
       IN  /\ tables' = [object_catalog |-> objs.table, object_images |-> imgs.table]
           /\ catalog' = IF overwrite
                          THEN [o \in Objects |->
                                   IF o \in FileObjectids(file)
                                   THEN [f \in Flags |-> 0] ELSE catalog[o]]
                          ELSE catalog
           /\ load' = [count |-> load.count + 1,
                       status |-> IF ok THEN "ok" ELSE "failed",
                       overwrite |-> overwrite, nextid |-> objs.id,
                       objectids |-> FileObjectids(file)]
    /\ UNCHANGED <<comments, reviewers, pc, req, evalVars, bulk, lst, ansVars, probe>>

\* a call of load_catalog on a loaded database.  The statements run in one
\* transaction: if an INSERT raises, or the database fails before the
\* commit (db_error), nothing of the load is kept but the serial ids used.
\* With overwrite the row of an existing object gets the file's ra, dec and
\* extra_columns and its user_flags are set back to False.
LoadCatalog(file, overwrite, db_error) ==
    /\ load.count < MaxLoads
    /\ LET objs == insert_objects(tables.object_catalog, file, overwrite, load.nextid)
           imgs == IF objs.ok
                   THEN insert_images(tables.object_images, file, overwrite)
                   ELSE [ok |-> FALSE, table |-> tables.object_images]
           ok == objs.ok /\ imgs.ok /\ ~db_error
       IN  /\ tables' = IF ok
                         THEN [object_catalog |-> objs.table,
                               object_images |-> imgs.table]
                         ELSE tables
           /\ catalog' = IF ok /\ overwrite
                          THEN [o \in Objects |->
                                   IF o \in FileObjectids(file)
                                   THEN [f \in Flags |-> 0] ELSE catalog[o]]
                          ELSE catalog
           /\ load' = [count |-> load.count + 1,
                       status |-> IF ok THEN "ok" ELSE "failed",
                       overwrite |-> overwrite, nextid |-> objs.id,
                       objectids |-> FileObjectids(file)]
    /\ UNCHANGED <<comments, reviewers, pc, req, evalVars, bulk, lst, ansVars, probe>>

\* one pass of main's port loop, or the test after it.  The loop runs while
\* not portok and thistry < maxtries; its body listens on serverport and
\* sets portok, or on socket.error goes on to serverport + 1.  After the
\* loop the server gives up if portok is not set.
ProbeStep(listen_ok) ==
    /\ probe.at = "loop"
    /\ IF ~probe.portok /\ probe.thistry < maxtries
       THEN IF listen_ok
            THEN probe' = [probe EXCEPT !.portok = TRUE]
            ELSE /\ probe.serverport < MaxProbes
                 /\ probe' = [probe EXCEPT !.serverport = @ + 1]
       ELSE probe' = [probe EXCEPT !.at = IF probe.portok THEN "started"
                                                          ELSE "gave up"]
    /\ UNCHANGED <<storeVars, pc, req, evalVars, bulk, lst, ansVars, loadVars>>

\* a call of update_object_flags
UpdateObjectFlags(o, flags) ==
    /\ catalog' = update_object_flags(o, flags)
    /\ UNCHANGED <<comments, reviewers, pc, req, evalVars, bulk, lst, ansVars, loadVars, probe>>

\* ReviewAssignmentHandler.post: worker_assign_reviewer
AssignReviewer(objectid_list, r, do_unassign) ==
    /\ do_unassign \/ Len(reviewers) + Len(objectid_list) <= MaxReviewerRows
    /\ reviewers' = update_review_assignments(objectid_list, r, do_unassign)
    /\ UNCHANGED <<catalog, comments, pc, req, evalVars, bulk, lst, ansVars, loadVars, probe>>

(***************************************************************************)
(* update_review_assignments_from_file, batch by batch: each call of       *)
(* update_review_assignments runs its one statement in its own             *)
(* transaction.                                                            *)
(***************************************************************************)
\* read the file and group it
BulkStart(assignments, chunksize) ==
    /\ bulk.state = "idle"
    /\ bulk' = [state |-> "running", file |-> assignments,
                chunksize |-> chunksize,
                todo |-> GroupBatches(assignments, GroupNames(assignments),
                                      chunksize)]
    /\ UNCHANGED <<storeVars, pc, req, evalVars, lst, ansVars, loadVars, probe>>

\* the next batch: its statement commits
BulkBatch ==
    /\ bulk.state = "running"
    /\ reviewers' = update_review_assignments(Head(bulk.todo).objectid_list,
                                              Head(bulk.todo).this_userid,
                                              Head(bulk.todo).do_unassign)
    /\ bulk' = [bulk EXCEPT !.todo = Tail(bulk.todo),
                            !.state = IF Tail(bulk.todo) = <<>> THEN "done"
                                      ELSE "running"]
    /\ UNCHANGED <<catalog, comments, pc, req, evalVars, lst, ansVars, loadVars, probe>>

\* the next batch with a row of the statement applied and the rest lost
BulkFailPartial ==
    /\ bulk.state = "running"
    /\ reviewers' = update_review_assignments(
                        <<Head(Head(bulk.todo).objectid_list)>>,
                        Head(bulk.todo).this_userid,
                        Head(bulk.todo).do_unassign)
    /\ bulk' = [bulk EXCEPT !.state = "failed"]
    /\ UNCHANGED <<catalog, comments, pc, req, evalVars, lst, ansVars, loadVars, probe>>

\* the next batch: its statement raises, the transaction is rolled back and
\* the exception ends the run
BulkFail ==
    /\ bulk.state = "running"
    /\ bulk' = [bulk EXCEPT !.state = "failed"]
    /\ UNCHANGED <<storeVars, pc, req, evalVars, lst, ansVars, loadVars, probe>>

Next ==
    \/ \E u \in Users, o \in ObjectIds : SaveCheck(u, o)
    \/ \E u \in Users, f \in VoteFlags : SaveInsert(u, f)
    \/ \E u \in Users : SaveRespond(u)
    \/ \E o \in Objects, flags \in FlagUpdates : UpdateObjectFlags(o, flags)
    \/ \E l \in ObjectLists, r \in Users, d \in BOOLEAN : AssignReviewer(l, r, d)

Spec == Init /\ [][Next]_vars

(***************************************************************************)
(* The evaluator applied to every bounded input.                           *)
(***************************************************************************)
InitEval ==
    /\ catalog = [o \in Objects |-> [f \in Flags |-> 0]]
    /\ comments = <<>>
    /\ reviewers = <<>>
    /\ pc = [u \in Users |-> "idle"]
    /\ req = [u \in Users |-> 0]
    /\ evalIn \in EvalInputs
    /\ evalOut = "none"
    /\ bulk = BulkIdle
    /\ lst = ListIdle
    /\ resp = NoAnswer
    /\ tries = [u \in Users |-> 0]
    /\ ret = [u \in Users |-> NoReturn]
    /\ tables = LoadedTables
    /\ load = NoLoad
    /\ probe = NoProbe

EvaluateStep ==
    /\ evalOut = "none"
    /\ evalOut' = Evaluate(evalIn.tally, evalIn.parts[1], evalIn.parts[2],
                           evalIn.maxGoodVotes, evalIn.maxBadVotes, MaxAllVotes)
    /\ UNCHANGED <<storeVars, pc, req, evalIn, bulk, lst, ansVars, loadVars, probe>>

NextEval == EvaluateStep

SpecEval == InitEval /\ [][NextEval]_vars

(***************************************************************************)
(* Votes only: save requests and review assignments, no call of            *)
(* update_object_flags.                                                    *)
(***************************************************************************)
NextVotes ==
    \/ \E u \in Users, o \in ObjectIds : SaveCheck(u, o)
    \/ \E u \in Users, f \in VoteFlags : SaveInsert(u, f)
    \/ \E u \in Users : SaveRespond(u)
    \/ \E l \in ObjectLists, r \in Users, d \in BOOLEAN : AssignReviewer(l, r, d)

SpecVotes == Init /\ [][NextVotes]_vars

(***************************************************************************)
(* Tally writers only: save requests and calls of update_object_flags, no  *)
(* review assignment.                                                      *)
(***************************************************************************)
NextTally ==
    \/ \E u \in Users, o \in ObjectIds : SaveCheck(u, o)
    \/ \E u \in Users, f \in VoteFlags : SaveInsert(u, f)
    \/ \E u \in Users : SaveRespond(u)
    \/ \E o \in Objects, flags \in FlagUpdates : UpdateObjectFlags(o, flags)

SpecTally == Init /\ [][NextTally]_vars

(***************************************************************************)
(* The write gate: save requests, all voting the one flag candy, and       *)
(* review assignments.                                                     *)
(***************************************************************************)
NextGate ==
    \/ \E u \in Users, o \in ObjectIds : SaveCheck(u, o)
    \/ \E u \in Users : SaveInsert(u, OneHot("candy"))
    \/ \E u \in Users : SaveRespond(u)
    \/ \E l \in ObjectLists, r \in Users, d \in BOOLEAN : AssignReviewer(l, r, d)

SpecGate == Init /\ [][NextGate]_vars

(***************************************************************************)
(* The save and load handlers with their failures: every answer a request  *)
(* can get.  The votes are one valid submission, the submission with two   *)
(* flags and the submission with an unknown flag.                          *)
(***************************************************************************)
SaveFlags == {OneHot("candy"), [g \in Flags |-> g \in {"candy", "junk"}], UnknownFlagVote}

NextSave ==
    \/ \E u \in Users, o \in ObjectIds : SaveCheck(u, o)
    \/ \E u \in Users, f \in SaveFlags : SaveInsert(u, f)
    \/ \E u \in Users, f \in SaveFlags, c \in BOOLEAN : SaveInsertFail(u, f, c)
    \/ \E u \in Users : SaveRespond(u)
    \/ \E u \in Users : SaveNoComment(u)
    \/ \E u \in Users, o \in ObjectIds : LoadObject(u, o)

SpecSave == Init /\ [][NextSave]_vars

(***************************************************************************)
(* Loads on a loaded database: every file, with and without overwrite,     *)
(* with and without a failure of the database.                             *)
(***************************************************************************)
NextLoad ==
    \E file \in CatalogFiles, overwrite \in BOOLEAN, db_error \in BOOLEAN :
        LoadCatalog(file, overwrite, db_error)

SpecLoad == Init /\ [][NextLoad]_vars

(***************************************************************************)
(* The startup of either server, with every outcome of every listen.       *)
(***************************************************************************)
InitProbe ==
    /\ catalog = [o \in Objects |-> [f \in Flags |-> 0]]
    /\ comments = <<>>
    /\ reviewers = <<>>
    /\ pc = [u \in Users |-> "idle"]
    /\ req = [u \in Users |-> 0]
    /\ evalIn = [tally |-> [f \in Flags |-> 0],
                 parts |-> <<GoodFlags, BadFlags>>,
                 maxGoodVotes |-> MaxGoodVotes,
                 maxBadVotes |-> MaxBadVotes]
    /\ evalOut = "none"
    /\ bulk = BulkIdle
    /\ lst = ListIdle
    /\ resp = NoAnswer
    /\ tries = [u \in Users |-> 0]
    /\ ret = [u \in Users |-> NoReturn]
    /\ tables = LoadedTables
    /\ load = NoLoad
    /\ \E server \in Servers : probe = ProbeStart(server)

NextProbe == \E listen_ok \in BOOLEAN : ProbeStep(listen_ok)

SpecProbe == InitProbe /\ [][NextProbe]_vars

(***************************************************************************)
(* Re-imports of one row with the other writers around them: saves on      *)
(* object 1, its assignment to user 1 and back, and a call of              *)
(* update_object_flags.                                                    *)
(***************************************************************************)
NextReimport ==
    \/ \E row \in FileRows, overwrite \in BOOLEAN :
          LoadCatalog(<<row>>, overwrite, FALSE)
    \/ SaveCheck(1, 1)
    \/ SaveInsert(1, OneHot("candy"))
    \/ SaveRespond(1)
    \/ \E d \in BOOLEAN : AssignReviewer(<<1>>, 1, d)
    \/ UpdateObjectFlags(1, [g \in Flags |-> IF g = "candy" THEN 2 ELSE 0])

SpecReimport == Init /\ [][NextReimport]_vars

(***************************************************************************)
(* Review assignments: assignment requests, then one bulk assignment from  *)
(* a file.                                                                 *)
(***************************************************************************)
NextBulk ==
    \/ /\ bulk.state = "idle"
       /\ \E l \in ObjectLists, r \in Users, d \in BOOLEAN : AssignReviewer(l, r, d)
    \/ \E a \in BulkFiles, c \in 1..MaxChunk : BulkStart(a, c)
    \/ BulkBatch
    \/ BulkFail

SpecBulk == Init /\ [][NextBulk]_vars

(***************************************************************************)
(* Object lists: one request at any anchor, or a walk through the pages    *)
(* from keyid 1, each request at the last returned keyid + 1.              *)
(***************************************************************************)
InitList ==
    /\ catalog = [o \in Objects |-> [f \in Flags |-> 0]]
    /\ comments = <<>>
    /\ reviewers = <<>>
    /\ pc = [u \in Users |-> "idle"]
    /\ req = [u \in Users |-> 0]
    /\ evalIn = [tally |-> [f \in Flags |-> 0],
                 parts |-> <<GoodFlags, BadFlags>>,
                 maxGoodVotes |-> MaxGoodVotes,
                 maxBadVotes |-> MaxBadVotes]
    /\ evalOut = "none"
    /\ bulk = BulkIdle
    /\ resp = NoAnswer
    /\ tries = [u \in Users |-> 0]
    /\ ret = [u \in Users |-> NoReturn]
    /\ tables = LoadedTables
    /\ load = NoLoad
    /\ probe = NoProbe
    /\ \E cat \in ListCatalogs, filter \in ListFilters, n \in 1..MaxPageSize :
          lst = [ListIdle EXCEPT !.phase = "ready", !.cat = cat,
                                 !.filter = filter, !.max_objects = n]

\* one request: start_keyid or end_keyid given, the other None
ListObjects(start_keyid, end_keyid) ==
    /\ lst.phase = "ready"
    /\ (start_keyid = None) # (end_keyid = None)
    /\ lst' = [lst EXCEPT
                 !.phase = "listed",
                 !.start_keyid = start_keyid,
                 !.end_keyid = end_keyid,
                 !.result = worker_get_objects(lst.cat, lst.filter, start_keyid,
                                               end_keyid, lst.max_objects)]
    /\ UNCHANGED <<storeVars, pc, req, evalVars, bulk, ansVars, loadVars, probe>>

\* the next page of the walk
NextPage ==
    /\ lst.phase \in {"ready", "walk"}
    /\ LET start_keyid == IF lst.phase = "ready" THEN 1
                          ELSE lst.result.end_keyid + 1
           result == worker_get_objects(lst.cat, lst.filter, start_keyid, None,
                                        lst.max_objects)
       IN lst' = [lst EXCEPT
                    !.phase = IF result.objectlist = <<>> THEN "done" ELSE "walk",
                    !.start_keyid = start_keyid,
                    !.result = result,
                    !.pages = IF result.objectlist = <<>> THEN @
                              ELSE Append(@, result.objectlist)]
    /\ UNCHANGED <<storeVars, pc, req, evalVars, bulk, ansVars, loadVars, probe>>

NextList ==
    \/ \E k \in 0..(MaxCatalog + 1) : ListObjects(k, None)
    \/ \E k \in 0..(MaxCatalog + 1) : ListObjects(None, k)
    \/ NextPage

SpecList == InitList /\ [][NextList]_vars

(***************************************************************************)
(* Terms of the properties.                                                *)
(***************************************************************************)
\* the vote tally of object o: its object_catalog.user_flags
voteTally(o) == catalog[o]

\* the number of comment rows of object o that have flag f set
LedgerCount(o, f) ==
    Cardinality({i \in CommentRows(o) : comments[i].user_flags[f]})

\* the tally of object o recomputed from its comment rows
LedgerTally(o) == [f \in Flags |-> LedgerCount(o, f)]

\* indexes of the comment rows of object o written by user u
Entries(o, u) == {i \in CommentRows(o) : comments[i].userid = u}

\* the comment rows of object o, in order
LedgerOf(o) == SelectSeq(comments, LAMBDA row : row.objectid = o)

\* the review status of object o: the evaluator applied to its tally under
\* the site's configuration
reviewStatus(o) ==
    Evaluate(voteTally(o), GoodFlags, BadFlags, MaxGoodVotes, MaxBadVotes, MaxAllVotes)

\* no save request is in flight
Quiescent == \A u \in Users : pc[u] = "idle"

\* the step is the write of user u's save request
WriteStep(u) == pc[u] = "checked" /\ pc'[u] = "inserted"

(***************************************************************************)
(* Properties.                                                             *)
(***************************************************************************)

\* C1: tally/ledger consistency.  In every quiescent state reached by save
\* requests alone, each object's tally count of each flag equals the number
\* of that object's ledger rows that have the flag set.
C1_TallyLedgerConsistency ==
    Quiescent =>
        \A o \in Objects, f \in Flags : voteTally(o)[f] = LedgerCount(o, f)

\* C2: single vote.  After any sequence of save requests, each (object,
\* voter) pair has at most one ledger row.
C2_SingleVote ==
    \A o \in Objects, u \in Users : Cardinality(Entries(o, u)) <= 1

\* the save requests of all users have written, on the same object o, and
\* these are the only ledger rows of o: K = Cardinality(Users) concurrent
\* votes by distinct voters
ConcurrentVotesDone(o) ==
    /\ \A u \in Users : pc[u] = "inserted" /\ req[u] = o
    /\ \A u \in Users : Cardinality(Entries(o, u)) = 1
    /\ \A i \in CommentRows(o) :
          \E f \in Flags : comments[i].user_flags = OneHot(f)

\* C3: no lost updates.  When K concurrent save requests of K distinct
\* voters on one object have all written, the object's tally sums to K and
\* each flag's count is the number of voters who chose that flag.
C3_NoLostUpdates ==
    \A o \in Objects :
        ConcurrentVotesDone(o) =>
            /\ SumOver(voteTally(o), Flags) = Cardinality(Users)
            /\ \A f \in Flags :
                  voteTally(o)[f] =
                      Cardinality({u \in Users :
                          \E i \in Entries(o, u) : comments[i].user_flags[f]})

\* C4: atomic vote commit.  Every step that writes an object's ledger
\* writes that object's tally in the same step: no step leaves the ledger
\* written and the tally as it was.
C4_AtomicVoteCommit ==
    [][\A o \in Objects :
          LedgerOf(o)' # LedgerOf(o) => voteTally(o)' # voteTally(o)]_vars

\* C5: status determinism.  In every state each object's review status,
\* the evaluator applied to its tally, equals the evaluator applied to the
\* tally recomputed from the object's ledger rows.
C5_StatusDeterminism ==
    \A o \in Objects :
        reviewStatus(o) =
            Evaluate(LedgerTally(o), GoodFlags, BadFlags,
                     MaxGoodVotes, MaxBadVotes, MaxAllVotes)

\* the votes of tally t for the flags of S, flag by flag
Votes(t, S) ==
    (IF "candy" \in S THEN t["candy"] ELSE 0)
    + (IF "junk" \in S THEN t["junk"] ELSE 0)
    + (IF "tidal" \in S THEN t["tidal"] ELSE 0)
    + (IF "cirrus" \in S THEN t["cirrus"] ELSE 0)

\* the tally with the given counts
TallyOf(candy, tidal, junk, cirrus) ==
    [f \in Flags |-> IF f = "candy" THEN candy
                     ELSE IF f = "tidal" THEN tidal
                     ELSE IF f = "junk" THEN junk ELSE cirrus]

\* the evaluator was applied under good = {candy, tidal}, bad = {junk,
\* cirrus} and thresholds 2/2 to tally t
EvaluatedExample(t) ==
    /\ evalOut # "none"
    /\ evalIn.parts = <<GoodFlags, BadFlags>>
    /\ evalIn.maxGoodVotes = 2 /\ evalIn.maxBadVotes = 2
    /\ evalIn.tally = t

\* C6: evaluator result.  For every tally and threshold configuration the
\* result is complete-good when the good votes reach maxGoodVotes, otherwise
\* complete-bad when the bad votes reach maxBadVotes, otherwise incomplete;
\* with the three examples of the threshold example.
C6_EvaluatorResult ==
    /\ evalOut # "none" =>
          LET good == Votes(evalIn.tally, evalIn.parts[1])
              bad == Votes(evalIn.tally, evalIn.parts[2])
          IN /\ good >= evalIn.maxGoodVotes => evalOut = "complete-good"
             /\ (good < evalIn.maxGoodVotes /\ bad >= evalIn.maxBadVotes)
                    => evalOut = "complete-bad"
             /\ (good < evalIn.maxGoodVotes /\ bad < evalIn.maxBadVotes)
                    => evalOut = "incomplete"
    /\ EvaluatedExample(TallyOf(1, 1, 0, 0)) => evalOut = "complete-good"
    /\ EvaluatedExample(TallyOf(0, 0, 1, 1)) => evalOut = "complete-bad"
    /\ EvaluatedExample(TallyOf(1, 0, 1, 0)) => evalOut = "incomplete"

\* C6 witness: the evaluator classified the tally {junk: 1, cirrus: 1} under
\* thresholds 2/2 as complete-bad.
C6_Witness ==
    EvaluatedExample(TallyOf(0, 0, 1, 1)) /\ evalOut = "complete-bad"

\* C7: tie-break.  Whenever the tally reaches both the good and the bad
\* threshold, the result is complete-good.
C7_TieBreak ==
    (/\ evalOut # "none"
     /\ Votes(evalIn.tally, evalIn.parts[1]) >= evalIn.maxGoodVotes
     /\ Votes(evalIn.tally, evalIn.parts[2]) >= evalIn.maxBadVotes)
        => evalOut = "complete-good"

\* C7 witness: the evaluator classified the tally {candy: 2, junk: 2}, which
\* reaches both thresholds 2/2, as complete-good.
C7_Witness ==
    EvaluatedExample(TallyOf(2, 0, 2, 0)) /\ evalOut = "complete-good"

\* every ledger row has exactly one flag set
AllOneHot ==
    \A i \in DOMAIN comments : \E f \in Flags : comments[i].user_flags = OneHot(f)

\* C8: first vote.  The write of a save request by a voter with no ledger
\* row for the object adds exactly one one-hot ledger row for (object,
\* voter) and increases the tally count of the chosen flag by exactly 1,
\* leaving every other count of that object unchanged.
C8_FirstVote ==
    [][\A u \in Users :
          (WriteStep(u) /\ Entries(req[u], u) = {} /\ AllOneHot')
              => /\ Len(comments') = Len(comments) + 1
                 /\ Cardinality(Entries(req[u], u)') = 1
                 /\ \E f \in Flags :
                       /\ \A i \in Entries(req[u], u)' :
                             comments'[i].user_flags = OneHot(f)
                       /\ voteTally(req[u])' =
                             [voteTally(req[u]) EXCEPT ![f] = @ + 1]]_vars

\* C9: vote change.  The write of a save request by a voter who already has
\* a ledger row for the object adds no ledger row, moves one vote from the
\* previous flag to the chosen flag, and so leaves the object's total
\* number of votes unchanged.
C9_VoteChange ==
    [][\A u \in Users :
          (WriteStep(u) /\ Entries(req[u], u) # {} /\ AllOneHot')
              => /\ Len(comments') = Len(comments)
                 /\ SumOver(voteTally(req[u])', Flags)
                        = SumOver(voteTally(req[u]), Flags)
                 /\ \E i \in Entries(req[u], u), prev \in Flags, chosen \in Flags :
                       /\ comments[i].user_flags = OneHot(prev)
                       /\ comments'[i].user_flags = OneHot(chosen)
                       /\ voteTally(req[u])' =
                             [[voteTally(req[u]) EXCEPT ![prev] = @ - 1]
                                 EXCEPT ![chosen] = @ + 1]]_vars

\* the object's review status is complete-good or complete-bad
Complete(o) == reviewStatus(o) \in {"complete-good", "complete-bad"}

\* C10: completed objects stay closed.  Once an object's review status is
\* complete, every step other than a call of update_object_flags leaves its
\* tally, ledger and status unchanged, and no save request for it passes
\* the check.
C10_CompletedStayClosed ==
    [][\A o \in Objects :
          (Complete(o) /\ catalog' = catalog)
              => /\ LedgerOf(o)' = LedgerOf(o)
                 /\ reviewStatus(o)' = reviewStatus(o)
                 /\ \A u \in Users :
                       ~(pc[u] = "idle" /\ pc'[u] = "checked" /\ req'[u] = o)]_vars

\* the flag forced by an override: count 2 for the chosen flag, 0 elsewhere
ForcedTally(f) == [g \in Flags |-> IF g = f THEN 2 ELSE 0]

\* C11: admin override tally.  The write of a superuser's save request that
\* chooses flag f adds one ledger row, sets the object's tally to count 2
\* for f and 0 for every other flag, whatever the tally was, and leaves the
\* review status that of the forced tally.
C11_AdminOverrideTally ==
    [][\A u \in Superusers :
          WriteStep(u)
              => /\ Len(comments') = Len(comments) + 1
                 /\ \A f \in Flags :
                       comments'[Len(comments')].user_flags = OneHot(f)
                           => /\ voteTally(req[u])' = ForcedTally(f)
                              /\ reviewStatus(req[u])' =
                                    Evaluate(ForcedTally(f), GoodFlags, BadFlags,
                                             MaxGoodVotes, MaxBadVotes,
                                             MaxAllVotes)]_vars

\* C12: admin override is decisive.  After the write of a superuser's save
\* request the object's review status is complete-good when the chosen flag
\* is a good flag and complete-bad when it is a bad flag.
C12_AdminOverrideDecisive ==
    [][\A u \in Superusers, f \in Flags :
          (WriteStep(u) /\ comments'[Len(comments')].user_flags = OneHot(f))
              => /\ f \in GoodFlags => reviewStatus(req[u])' = "complete-good"
                 /\ f \in BadFlags => reviewStatus(req[u])' = "complete-bad"]_vars

\* what the store holds of object o: its tally, review status and ledger
ObjectView(o) == <<voteTally(o), reviewStatus(o), LedgerOf(o)>>

\* both users' save requests, on different objects, have written, and
\* theirs are the only ledger rows
BothVoted ==
    /\ \A u \in Users : pc[u] = "inserted"
    /\ req[1] # req[2]
    /\ Len(comments) = Cardinality(Users)

\* C13: votes on different objects are independent.  The write of a save
\* request for object X leaves the tally, status and ledger of every other
\* object unchanged; no step changes those of more than one object; and when
\* two save requests on different objects have both written, in whichever
\* order and interleaving, each object's ledger is the one row of its voter.
C13_VotesIndependent ==
    [][/\ \A u \in Users :
             WriteStep(u) =>
                 \A o \in Objects \ {req[u]} : ObjectView(o)' = ObjectView(o)
       /\ Cardinality({o \in Objects : ObjectView(o)' # ObjectView(o)}) <= 1
       /\ BothVoted' =>
             \A u \in Users :
                 /\ Len(LedgerOf(req[u])') = 1
                 /\ LedgerOf(req[u])'[1].userid = u]_vars

\* C13 witness: user 2's vote on object 2 was written before user 1's vote
\* on object 1, and both are in the ledger.
C13_Witness ==
    /\ BothVoted
    /\ req[1] = 1 /\ req[2] = 2
    /\ comments[1].userid = 2

\* a save request for object o by user u would pass the check
Accepts(o, u) == ObjectFound(o) /\ ~readonly(o, u)

\* the objects with a reviewer row the step wrote
Reassigned ==
    {o \in Objects :
        \E i \in DOMAIN reviewers' :
            /\ reviewers'[i].objectid = o
            /\ (i \notin DOMAIN reviewers \/ reviewers'[i] # reviewers[i])}

C15_AssignOverwrites ==
    [][/\ \A i \in DOMAIN reviewers' \ DOMAIN reviewers, o \in Objects :
             reviewers'[i].objectid = o =>
                 reviewer_userid(o)' = {reviewers'[i].userid}
       /\ \A o \in Objects : Cardinality(reviewer_userid(o)') <= 1]_vars

\* C16: unassign.  A step that unassigns a list of objects leaves every
\* listed object without an assigned reviewer and the assigned reviewers of
\* every other object as they were.
C16_Unassign ==
    [][\A l \in ObjectLists :
          reviewers' = update_review_assignments(l, NULL, TRUE) =>
              \A o \in Objects :
                  IF InList(o, l) THEN reviewer_userid(o)' = {}
                  ELSE reviewer_userid(o)' = reviewer_userid(o)]_vars

\* C16 witness: of two assigned objects, object 1 was unassigned and object
\* 2 still has its reviewer.
C16_Witness ==
    /\ ReviewerRows(1) # {} /\ reviewer_userid(1) = {}
    /\ reviewer_userid(2) # {}

\* the batches hold each row of the file exactly once, and each batch holds
\* between 1 and chunksize objects of one userid
Partitioned(assignments, chunksize, batches) ==
    /\ \A i \in DOMAIN assignments :
          Cardinality({x \in (DOMAIN batches) \X (1..chunksize) :
                          /\ x[2] \in DOMAIN batches[x[1]].objectid_list
                          /\ batches[x[1]].objectid_list[x[2]]
                                = assignments[i].objectid
                          /\ batches[x[1]].this_userid
                                = assignments[i].userid}) = 1
    /\ \A b \in DOMAIN batches :
          /\ Len(batches[b].objectid_list) \in 1..chunksize
          /\ batches[b].do_unassign = (batches[b].this_userid = 0)

\* C17: bulk assignment.  When a bulk assignment has run to its end, every
\* object the file pairs with userid 0 has no assigned reviewer and every
\* object it pairs with another userid has exactly that reviewer; the
\* batches partition the rows of the file.
C17_BulkAssignment ==
    bulk.state = "done" =>
        /\ \A i \in DOMAIN bulk.file :
              reviewer_userid(bulk.file[i].objectid) =
                  IF bulk.file[i].userid = 0 THEN {}
                  ELSE {bulk.file[i].userid}
        /\ Partitioned(bulk.file, bulk.chunksize,
                       GroupBatches(bulk.file, GroupNames(bulk.file),
                                    bulk.chunksize))

\* C18: batch atomicity.  The step in which a batch fails leaves the
\* assignments exactly as the batches committed before it left them: no row
\* of the failed batch is visible and no committed batch is undone; and
\* nothing is written after the failure.
C18_BatchAtomicity ==
    [][/\ (bulk.state = "running" /\ bulk'.state = "failed") =>
              reviewers' = reviewers
       /\ bulk.state = "failed" => reviewers' = reviewers]_vars

\* C18 witness: of a file of two batches the first was committed and the
\* second failed.
C18_Witness ==
    /\ bulk.state = "failed"
    /\ Len(bulk.todo) = 1
    /\ bulk.chunksize = 1 /\ Len(bulk.file) = 2
    /\ bulk.file[1].userid = bulk.file[2].userid
    /\ bulk.file[1].userid # 0
    /\ reviewer_userid(bulk.file[1].objectid) = {bulk.file[1].userid}
    /\ reviewer_userid(bulk.file[2].objectid) = {}

\* the keyids of the rows of the listed catalog that pass the filter
MatchingKeyids == {k \in DOMAIN lst.cat : Matches(lst.cat[k], lst.filter)}

\* the keyids a request at the given anchor may return
InRange ==
    IF lst.end_keyid = None
    THEN {k \in MatchingKeyids : k >= lst.start_keyid}
    ELSE {k \in MatchingKeyids : k <= lst.end_keyid}

\* the n keyids of S nearest the anchor: the smallest ones of a scan from a
\* start key, the largest ones of a scan from an end key (all of S if it has
\* fewer than n)
Nearest(S, n) ==
    {k \in S :
        Cardinality({j \in S : IF lst.end_keyid = None THEN j < k ELSE j > k}) < n}

\* the elements of a sequence
Range(seq) == {seq[i] : i \in DOMAIN seq}

RECURSIVE Concatenation(_)
Concatenation(pages) ==
    IF pages = <<>> THEN <<>> ELSE Head(pages) \o Concatenation(Tail(pages))

\* the keyid of the listed catalog's row with objectid o
KeyidOf(o) == CHOOSE k \in DOMAIN lst.cat : lst.cat[k].objectid = o

\* the pages of the walk share no object
PagesDisjoint ==
    \A i, j \in DOMAIN lst.pages :
        i # j => Range(lst.pages[i]) \cap Range(lst.pages[j]) = {}

C21_ObjectlistDeduplicated ==
    \A rs \in ReviewStatuses, u \in Users :
        LET l == objectlist(select_objectids(rs, u))
        IN  \A i, j \in DOMAIN l : l[i] = l[j] => i = j

\* object 1 has two comment rows and two reviewer rows, so the join holds it
\* four times, and the list holds it once
C21_Witness ==
    /\ Cardinality(CommentRows(1)) = 2
    /\ Cardinality(ReviewerRows(1)) = 2
    /\ Len(select_objectids("all", 1)) = 5
    /\ objectlist(select_objectids("all", 1)) = <<1, 2>>

\* the objects a filter lists for user u
Listed(rs, u) == Range(objectlist(select_objectids(rs, u)))

(***************************************************************************)
(* C22  Voter-inclusion filter: every object listed or counted for the     *)
(* filter that includes voter u (reviewed-self) has a comment row by u,    *)
(* and no object listed or counted for the filter that excludes voter u    *)
(* (reviewed-other) has one, whoever else has voted on it.                 *)
(***************************************************************************)
C22_VoterInclusionFilter ==
    \A u \in Users :
        /\ \A o \in Listed("reviewed-self", u) : Entries(o, u) # {}
        /\ get_object_count("reviewed-self", u) =
               Cardinality({o \in Listed("reviewed-self", u) : Entries(o, u) # {}})
        /\ \A o \in Listed("reviewed-other", u) : Entries(o, u) = {}
        /\ get_object_count("reviewed-other", u) =
               Cardinality({o \in Listed("reviewed-other", u) : Entries(o, u) = {}})

(***************************************************************************)
(* C23  Page count: the n_pages a list request reports is                  *)
(* ceil(object_count / max_objects), the least number of pages of          *)
(* max_objects objects that hold object_count objects, for every           *)
(* object_count >= 0 and max_objects >= 1.                                 *)
(***************************************************************************)
C23_PageCount ==
    lst.phase \in {"listed", "walk", "done"} =>
        LET r == lst.result
        IN  /\ r.n_pages >= 0
            /\ r.n_pages * lst.max_objects >= r.object_count
            /\ (r.n_pages - 1) * lst.max_objects < r.object_count

\* a count that max_objects does not divide: three objects in pages of two
C23_Witness ==
    /\ lst.phase = "listed"
    /\ lst.max_objects = 2
    /\ lst.result.object_count = 3
    /\ lst.result.n_pages = 2

\* the flags a user_flags mapping sets
TrueFlags(user_flags) == {f \in DOMAIN user_flags : user_flags[f]}

(***************************************************************************)
(* C24  One-hot ledger entries: in every state of the store, the           *)
(* user_flags of every row of object_comments has exactly one true flag.   *)
(***************************************************************************)
C24_OneHotLedger ==
    \A i \in DOMAIN comments : Cardinality(TrueFlags(comments[i].user_flags)) = 1

\* every object's user_flags has the flags of flags_to_use as its keys and a
\* non-negative integer for each
TallyShape ==
    \A o \in Objects :
        /\ DOMAIN catalog[o] = Flags
        /\ \A f \in Flags : catalog[o][f] \in Nat

ValidVote(user_flags) ==
    /\ TrueFlags(user_flags) \subseteq Flags
    /\ Cardinality(TrueFlags(user_flags)) = 1

(***************************************************************************)
(* C26  Invalid votes rejected: a save whose user_flags sets a flag that   *)
(* is not configured, or sets more than one flag, leaves the store as it   *)
(* was: no step adds a row to object_comments that carries such a vote.    *)
(***************************************************************************)
C26_InvalidVotesRejected ==
    [][\A i \in (DOMAIN comments') \ (DOMAIN comments) :
          ValidVote(comments'[i].user_flags)]_vars

\* user u has a row for object o whose user_flags is not one-hot
Corrupted(o, u) ==
    \E i \in Entries(o, u) : Cardinality(TrueFlags(comments[i].user_flags)) # 1

(***************************************************************************)
(* C27  Ledger corruption reported, not repaired: when user u's existing   *)
(* entry for object o is not one-hot, a further save by u on o changes     *)
(* nothing: no step adds a row of u for o, and o's tally stays as it is.   *)
(***************************************************************************)
C27_CorruptionNotRepaired ==
    [][\A o \in Objects, u \in Users :
          Corrupted(o, u) =>
              /\ \A i \in (DOMAIN comments') \ (DOMAIN comments) :
                     ~(comments'[i].objectid = o /\ comments'[i].userid = u)
              /\ catalog'[o] = catalog[o]]_vars

(***************************************************************************)
(* C28  NotFound: a load or a save that names an objectid which is not in  *)
(* the catalog is answered 'failed' with no result, the save goes no       *)
(* further, and the store is left as it was; no row of object_comments     *)
(* ever names an objectid that is not in the catalog.                      *)
(***************************************************************************)
C28_NotFound ==
    /\ [](\A i \in DOMAIN comments : comments[i].objectid \in Objects)
    /\ [][\A u \in Users, o \in ObjectIds \ Objects :
             /\ LoadObject(u, o) =>
                    /\ resp' = Answer("failed", "not found", "None")
                    /\ storeVars' = storeVars
             /\ SaveCheck(u, o) =>
                    /\ resp' = Answer("failed", "not found or not in your list", "None")
                    /\ pc'[u] = "idle"
                    /\ storeVars' = storeVars]_vars

\* a load of an objectid that is not in the catalog has just been answered,
\* with votes in the ledger, none of them for an objectid outside the catalog
C28_Witness ==
    /\ resp = Answer("failed", "not found", "None")
    /\ comments # <<>>
    /\ \A i \in DOMAIN comments : comments[i].objectid \in Objects

(***************************************************************************)
(* C29  Failures never reported as success: a save whose insert worker     *)
(* fails leaves catalog, comments and reviewers as they were, and is       *)
(* answered 'failed'.                                                      *)
(***************************************************************************)
C29_FailuresReported ==
    [][\A u \in Users :
          /\ (pc[u] = "checked" /\ pc'[u] = "failed") => storeVars' = storeVars
          /\ (pc[u] = "failed" /\ pc'[u] = "idle") =>
                 /\ resp'.status = "failed"
                 /\ storeVars' = storeVars]_vars

OverwriteStep ==
    /\ load'.count = load.count + 1
    /\ load'.status = "ok"
    /\ load'.overwrite

C32_PortProbingBounded ==
    probe.serverport < maxtries

(***************************************************************************)
(* C33  Write gate on assignment: whenever a save request of user u        *)
(* inserts its row for object o, o has at that moment no assigned reviewer *)
(* or u is one of its assigned reviewers.                                  *)
(***************************************************************************)
C33_WriteGateAtInsert ==
    [][\A u \in Users :
          WriteStep(u) =>
              \/ reviewer_userid(req[u]) = {}
              \/ u \in reviewer_userid(req[u])]_vars


(***************************************************************************)
(* C34: the 'unassigned-all' filter selects an object if and only if the   *)
(* object has no reviewer now, and 'assigned-all' if and only if it has    *)
(* one, after any sequence of assign and unassign operations.              *)
(***************************************************************************)
C34_UnassignedListingExact ==
    \A o \in Objects, u \in Users :
        /\ (o \in Listed("unassigned-all", u)) <=> (reviewer_userid(o) = {})
        /\ (o \in Listed("assigned-all", u)) <=> (reviewer_userid(o) # {})


(***************************************************************************)
(* C35: the comments list of the object view holds every stored comment of *)
(* the object exactly once, whatever number of reviewer rows the object    *)
(* has.                                                                    *)
(***************************************************************************)
C35_CommentsOnce ==
    \A o \in Objects :
        \A c \in CommentRows(o) :
            Cardinality({i \in DOMAIN view_comments(o) : view_comments(o)[i] = c}) = 1


(***************************************************************************)
(* C36: worker_insert_object_comments returns {'updated': True} exactly    *)
(* when the comment row was committed to the store, and returns None or    *)
(* {'updated': False} only when nothing was stored.                        *)
(***************************************************************************)
C36_TruthfulUpdateFlag ==
    [][\A u \in Users :
          (ret'[u] # ret[u] /\ ret'[u].kind # "none")
              => IF comments' # comments
                 THEN ret'[u].kind = "retdict" /\ ret'[u].updated
                 ELSE ret'[u].kind = "None" \/ ~ret'[u].updated]_vars


(***************************************************************************)
(* C37: for every review_status filter and userid (None included), in the  *)
(* same store state, get_object_count returns the number of distinct       *)
(* objects that get_objects returns for the filter without keyid bounds.   *)
(***************************************************************************)
C37_CountMatchesList ==
    \A rs \in ReviewStatuses, u \in Users \cup {NULL} :
        get_object_count(rs, u) = Cardinality(Range(select_objectids(rs, u)))

\* a loaded third object, and object 1 with two comments of user 1 and a
\* reviewer row: three objects in all, one of them reviewed by user 1
C37_Witness ==
    /\ Len(tables.object_catalog) = 3
    /\ Cardinality(CommentRows(1)) = 2
    /\ ReviewerRows(1) # {}
    /\ Len(select_objectids("reviewed-self", 1)) = 2
    /\ get_object_count("reviewed-self", 1) = 1
    /\ get_object_count("all", NULL) = 3


(***************************************************************************)
(* C38: in every reachable state each catalog object is selected by        *)
(* exactly one of the filters 'reviewed-all' and 'unreviewed-all'; it is   *)
(* in 'reviewed-all' if and only if at least one comment row exists for    *)
(* it, and the two counts add up to the count for 'all'.                   *)
(***************************************************************************)
C38_ReviewedPartition ==
    \A u \in Users \cup {NULL} :
        /\ \A t \in CatalogRows :
              /\ (t.objectid \in Listed("reviewed-all", u))
                     # (t.objectid \in Listed("unreviewed-all", u))
              /\ (t.objectid \in Listed("reviewed-all", u))
                     <=> (CommentRows(t.objectid) # {})
        /\ get_object_count("reviewed-all", u) + get_object_count("unreviewed-all", u)
               = get_object_count("all", u)

\* three catalog objects: object 1 with a comment and a reviewer row, the
\* other two without a comment
C38_Witness ==
    /\ Len(tables.object_catalog) = 3
    /\ CommentRows(1) # {}
    /\ ReviewerRows(1) # {}
    /\ Listed("reviewed-all", 1) = {1}
    /\ Listed("unreviewed-all", 1) = {2, 3}


(***************************************************************************)
(* C39: load_catalog is all-or-nothing.  After a load that fails on any    *)
(* row no object row and no image row of that load is present: both tables *)
(* are as they were before the load.  After a successful load every object *)
(* of the file has exactly one object row and exactly one image row.       *)
(***************************************************************************)
C39_LoadAllOrNothing ==
    [][load'.count = load.count + 1
          => IF load'.status = "failed"
             THEN tables' = tables
             ELSE \A o \in load'.objectids :
                     /\ Cardinality({k \in DOMAIN tables'.object_catalog :
                                        tables'.object_catalog[k].objectid = o}) = 1
                     /\ Cardinality({k \in DOMAIN tables'.object_images :
                                        tables'.object_images[k].objectid = o}) = 1]_vars

\* the first load, without overwrite, of a file with the new object 3 and
\* then the loaded object 1: the row of object 3 was inserted (two serial
\* ids are used up) before the duplicate failed, and is not in the store
C39_Witness ==
    /\ load.count = 1
    /\ load.status = "failed"
    /\ ~load.overwrite
    /\ load.objectids = {1, 3}
    /\ load.nextid = Cardinality(Objects) + 3
    /\ tables = LoadedTables

====
